---- MODULE Spec2Model ----
(***************************************************************************)
(* State-machine model of tagger.py, the OBS script that logs START / END  *)
(* lines when the active scene enters or leaves one of the configured      *)
(* game scenes.                                                            *)
(*                                                                         *)
(* The handler handle_event is modelled step by step: every blocking call  *)
(* (requests.get, open/write) and every assignment to the module-level     *)
(* dictionary `data` is one step of the invocation h that executes it.     *)
(* An exception that escapes a step ends the invocation (the host catches  *)
(* it and reports it in its script log); nothing in tagger.py catches any  *)
(* exception.                                                              *)
(***************************************************************************)
EXTENDS Integers, Sequences, FiniteSets, TLC

(* ------------------------------ bounds -------------------------------- *)
\* number of frontend events the host delivers in one explored run
MaxEvents == 3
\* frames available to handler invocations (the host runs one at a time)
NumHandlers == 2

(* ---------------------------- value domains ---------------------------- *)
SceneNames == {"Game Capture", "Lobby"}
LogPaths == {"", "a.log", "b.log"}
ApiUrls == {"", "http://api"}
GameIds == {"g1", "g2"}
Handlers == 1..NumHandlers

\* Python None / an id stored in data["current_game"]
None == <<>>
Some(g) == <<g>>

\* contents of the "gamescene" editable list: empty, one name, both names,
\* and one name entered twice
SceneLists ==
    {<<>>, <<"Game Capture">>, <<"Lobby">>, <<"Game Capture", "Lobby">>,
     <<"Game Capture", "Game Capture">>}

Settings == [gamescene : SceneLists, logfile : LogPaths, apiurl : ApiUrls]

\* what the endpoint can answer once a request got through
Responses ==
    {[status |-> 200, body |-> "json", id |-> g] : g \in GameIds}
    \cup {[status |-> 500, body |-> "json", id |-> "g1"]}
    \cup {[status |-> 200, body |-> b, id |-> ""] : b \in {"nofield", "malformed"}}
NoResponse == [status |-> 0, body |-> "", id |-> ""]

VARIABLES
    settings,        \* data["settings"]: the host's live settings object
    in_game_scene,   \* data["in_game_scene"]
    current_game,    \* data["current_game"]
    current_scene,   \* host: name of the active scene
    now,             \* host: local wall clock read by datetime.now()
    appends,         \* file system: the lines appended so far, in order
    resolver_calls,  \* number of set_game() calls made so far
    console,         \* last line printed on the script console
    nevents,         \* frontend events delivered so far
    pc,              \* per invocation: the statement it is at
    branch,          \* arm of the if (lines 104/117/122) the last event took
    scene_name,      \* per invocation: local scene_name
    game_scenes,     \* per invocation: local list game_scenes
    req_url,         \* per invocation: URL handed to requests.get
    resp,            \* per invocation: local resp
    result           \* per invocation: how the last run ended

vars == <<settings, in_game_scene, current_game, current_scene, now, appends,
          resolver_calls, console, nevents, branch, pc, scene_name,
          game_scenes, req_url, resp, result>>

locals == <<scene_name, game_scenes, req_url, resp>>

(* ------------------------------ helpers -------------------------------- *)
\* an empty list taken to mean "every scene is a game scene"
InList_EmptyMatchesAll(x, list) ==
    list = <<>> \/ \E i \in 1..Len(list) : list[i] = x

\* `x in list`
InList(x, list) == \E i \in 1..Len(list) : list[i] = x

\* the loop of lines 111-114 stopping one item early
RECURSIVE ReadArray_DropsLast(_, _)
ReadArray_DropsLast(array, i) ==
    IF i >= Len(array) THEN <<>>
    ELSE <<array[i]>> \o ReadArray_DropsLast(array, i + 1)

\* lines 109-115: copy the settings array into a Python list, item by item
RECURSIVE ReadArray(_, _)
ReadArray(array, i) ==
    IF i > Len(array) THEN <<>>
    ELSE <<array[i]>> \o ReadArray(array, i + 1)

\* the two tags swapped: ["END", "START"][end]
EventName_Swapped(end) == <<"END", "START">>[IF end THEN 2 ELSE 1]

\* ["START", "END"][end]
EventName(end) == <<"START", "END">>[IF end THEN 2 ELSE 1]

\* how the f-string renders data["current_game"]
Str(v) == IF v = None THEN "None" ELSE v[1]

\* the END line written without the game id
FormatLine_EndOmitsGame(timestamp, event, game) ==
    [timestamp |-> timestamp, event |-> event,
     game |-> IF event = "END" THEN "None" ELSE Str(game)]

\* f"[{timestamp}] {event} {data["current_game"]}\n"; the quotes nested in
\* the f-string need Python 3.12, the model is of the script once it loaded
FormatLine(timestamp, event, game) ==
    [timestamp |-> timestamp, event |-> event, game |-> Str(game)]

\* open(path, "a") can only succeed on a path that names a file
Openable(path) == path # ""

\* requests.get raises MissingSchema before sending anything for such a URL
ValidUrl(url) == url # ""

\* the invocation ends and its frame (the locals) is gone
End(h, how) ==
    /\ pc' = [pc EXCEPT ![h] = "idle"]
    /\ result' = [result EXCEPT ![h] = how]
    /\ scene_name' = [scene_name EXCEPT ![h] = ""]
    /\ game_scenes' = [game_scenes EXCEPT ![h] = <<>>]
    /\ req_url' = [req_url EXCEPT ![h] = ""]
    /\ resp' = [resp EXCEPT ![h] = NoResponse]

\* ... normally / with an exception escaping to the host
Return(h) == End(h, "returned")
Raise(h) == End(h, "raised")

(* ------------------------------- Init ---------------------------------- *)
Init ==
    /\ settings \in Settings
    /\ in_game_scene = FALSE
    /\ current_game = None
    /\ current_scene \in SceneNames
    /\ now = 0
    /\ appends = <<>>
    /\ resolver_calls = 0
    /\ console = ""
    /\ nevents = 0
    /\ pc = [h \in Handlers |-> "idle"]
    /\ branch = "none"
    /\ scene_name = [h \in Handlers |-> ""]
    /\ game_scenes = [h \in Handlers |-> <<>>]
    /\ req_url = [h \in Handlers |-> ""]
    /\ resp = [h \in Handlers |-> NoResponse]
    /\ result = [h \in Handlers |-> "none"]

(* ---------------------------- environment ------------------------------ *)
\* the operator edits one field of the script's settings form; the form and
\* the frontend callbacks run on the same host thread, and a running
\* invocation blocks that thread, so an edit falls between two invocations
ConfigChange ==
    /\ \A h \in Handlers : pc[h] = "idle"
    /\ \/ \E l \in SceneLists \ {settings.gamescene} :
             settings' = [settings EXCEPT !.gamescene = l]
       \/ \E f \in LogPaths \ {settings.logfile} :
             settings' = [settings EXCEPT !.logfile = f]
       \/ \E u \in ApiUrls \ {settings.apiurl} :
             settings' = [settings EXCEPT !.apiurl = u]
    /\ UNCHANGED <<in_game_scene, current_game, current_scene, now, appends,
                   resolver_calls, console, nevents, pc, branch, locals, result>>

\* the local wall clock is set back (end of daylight saving time, NTP step)
ClockSetBack ==
    /\ \E t \in 0..(now - 1) : now' = t
    /\ UNCHANGED <<settings, in_game_scene, current_game, current_scene,
                   appends, resolver_calls, console, nevents, pc, branch,
                   locals, result>>

(* ----------------------------- handle_event ---------------------------- *)
\* the host serializes notifications: one invocation at a time
Serialized == \A g \in Handlers : pc[g] = "idle"

\* a new invocation gets the lowest free frame
Free(h) == pc[h] = "idle" /\ \A g \in Handlers : g < h => pc[g] # "idle"

\* line 104 missing: any frontend event enters the start transition when
\* the active scene is a game scene
OtherEvent_Unfiltered(h) ==
    /\ Serialized
    /\ Free(h)
    /\ nevents < MaxEvents
    /\ nevents' = nevents + 1
    /\ branch' = "other"
    /\ LET list == ReadArray(settings.gamescene, 1)
       IN  IF ~in_game_scene /\ InList(current_scene, list)
           THEN /\ pc' = [pc EXCEPT ![h] = "set_game"]
                /\ scene_name' = [scene_name EXCEPT ![h] = current_scene]
                /\ game_scenes' = [game_scenes EXCEPT ![h] = list]
                /\ UNCHANGED <<req_url, resp, result>>
           ELSE Return(h)
    /\ UNCHANGED <<settings, in_game_scene, current_game, current_scene, now,
                   appends, resolver_calls, console>>

\* line 104 false: an event other than a scene change
OtherEvent(h) ==
    /\ Serialized
    /\ Free(h)
    /\ nevents < MaxEvents
    /\ nevents' = nevents + 1
    /\ branch' = "other"
    /\ Return(h)
    /\ UNCHANGED <<settings, in_game_scene, current_game, current_scene, now,
                   appends, resolver_calls, console>>

\* lines 104-118 / 122-123: the scene changed to s; read the scene name and
\* the game-scene list, then pick the arm of the if
SceneChanged(h, s) ==
    /\ Serialized
    /\ Free(h)
    /\ nevents < MaxEvents
    /\ nevents' = nevents + 1
    /\ current_scene' = s
    /\ LET list == ReadArray(settings.gamescene, 1)
       IN  IF ~in_game_scene /\ InList(s, list)
           THEN /\ console' = "Entering game"
                /\ branch' = "start"
                /\ pc' = [pc EXCEPT ![h] = "set_game"]
                /\ scene_name' = [scene_name EXCEPT ![h] = s]
                /\ game_scenes' = [game_scenes EXCEPT ![h] = list]
                /\ UNCHANGED <<req_url, resp, result>>
           ELSE IF in_game_scene /\ ~InList(s, list)
           THEN /\ console' = "Leaving game"
                /\ branch' = "end"
                /\ pc' = [pc EXCEPT ![h] = "log_end"]
                /\ scene_name' = [scene_name EXCEPT ![h] = s]
                /\ game_scenes' = [game_scenes EXCEPT ![h] = list]
                /\ UNCHANGED <<req_url, resp, result>>
           ELSE /\ branch' = "noop"
                /\ Return(h)
                /\ UNCHANGED console
    /\ UNCHANGED <<settings, in_game_scene, current_game, now, appends,
                   resolver_calls>>

\* a re-entrancy guard in front of line 104: a notification that arrives
\* while a transition is running is dropped
SceneChangedReentrant_Guarded(h, s) ==
    /\ \E g \in Handlers : pc[g] = "requests_get"
    /\ Free(h)
    /\ nevents < MaxEvents
    /\ nevents' = nevents + 1
    /\ current_scene' = s
    /\ branch' = "noop"
    /\ Return(h)
    /\ UNCHANGED <<settings, in_game_scene, current_game, now, appends,
                   resolver_calls, console>>

\* lines 104-118 / 122-123 entered a second time while an earlier invocation
\* is inside requests.get (line 85): a host that does not serialize its
\* notifications; nothing in handle_event detects the running invocation
SceneChangedReentrant(h, s) ==
    /\ \E g \in Handlers : pc[g] = "requests_get"
    /\ Free(h)
    /\ nevents < MaxEvents
    /\ nevents' = nevents + 1
    /\ current_scene' = s
    /\ LET list == ReadArray(settings.gamescene, 1)
       IN  IF ~in_game_scene /\ InList(s, list)
           THEN /\ console' = "Entering game"
                /\ branch' = "start"
                /\ pc' = [pc EXCEPT ![h] = "set_game"]
                /\ scene_name' = [scene_name EXCEPT ![h] = s]
                /\ game_scenes' = [game_scenes EXCEPT ![h] = list]
                /\ UNCHANGED <<req_url, resp, result>>
           ELSE IF in_game_scene /\ ~InList(s, list)
           THEN /\ console' = "Leaving game"
                /\ branch' = "end"
                /\ pc' = [pc EXCEPT ![h] = "log_end"]
                /\ scene_name' = [scene_name EXCEPT ![h] = s]
                /\ game_scenes' = [game_scenes EXCEPT ![h] = list]
                /\ UNCHANGED <<req_url, resp, result>>
           ELSE /\ branch' = "noop"
                /\ Return(h)
                /\ UNCHANGED console
    /\ UNCHANGED <<settings, in_game_scene, current_game, now, appends,
                   resolver_calls>>

(* ------------------------------- set_game ------------------------------ *)
\* line 85, first half: read the endpoint and hand it to requests.get,
\* which raises MissingSchema at once for a URL it cannot parse
SetGameRequest(h) ==
    /\ pc[h] = "set_game"
    /\ resolver_calls' = resolver_calls + 1
    /\ IF ValidUrl(settings.apiurl)
       THEN /\ req_url' = [req_url EXCEPT ![h] = settings.apiurl]
            /\ pc' = [pc EXCEPT ![h] = "requests_get"]
            /\ UNCHANGED <<scene_name, game_scenes, resp, result>>
       ELSE Raise(h)
    /\ UNCHANGED <<settings, in_game_scene, current_game, current_scene, now,
                   appends, console, nevents, branch>>

\* line 85, second half: the blocking request ends with a response ...
SetGameResponse(h, r) ==
    /\ pc[h] = "requests_get"
    /\ resp' = [resp EXCEPT ![h] = r]
    /\ pc' = [pc EXCEPT ![h] = "check_status"]
    /\ UNCHANGED <<settings, in_game_scene, current_game, current_scene, now,
                   appends, resolver_calls, console, nevents, branch,
                   scene_name, game_scenes, req_url, result>>

\* ... or with requests raising (connection refused, DNS failure, ...)
SetGameNetworkError(h) ==
    /\ pc[h] = "requests_get"
    /\ Raise(h)
    /\ UNCHANGED <<settings, in_game_scene, current_game, current_scene, now,
                   appends, resolver_calls, console, nevents, branch>>

\* lines 86-89 with the stored id reset when the lookup is refused
SetGameStore_ClearsOnFailure(h) ==
    /\ pc[h] = "check_status"
    /\ IF resp[h].status = 200
       THEN IF resp[h].body = "json"
            THEN /\ current_game' = Some(resp[h].id)
                 /\ pc' = [pc EXCEPT ![h] = "log_start"]
                 /\ UNCHANGED <<console, locals, result>>
            ELSE /\ Raise(h)
                 /\ UNCHANGED <<current_game, console>>
       ELSE /\ console' = "Failed to get data from API"
            /\ current_game' = None
            /\ pc' = [pc EXCEPT ![h] = "log_start"]
            /\ UNCHANGED <<locals, result>>
    /\ UNCHANGED <<settings, in_game_scene, current_scene, now, appends,
                   resolver_calls, nevents, branch>>

\* lines 86-89
SetGameStore(h) ==
    /\ pc[h] = "check_status"
    /\ IF resp[h].status = 200
       THEN IF resp[h].body = "json"
            THEN /\ current_game' = Some(resp[h].id)
                 /\ pc' = [pc EXCEPT ![h] = "log_start"]
                 /\ UNCHANGED <<console, locals, result>>
            ELSE \* resp.json() raises, or KeyError on "current_game_id"
                 /\ Raise(h)
                 /\ UNCHANGED <<current_game, console>>
       ELSE /\ console' = "Failed to get data from API"
            /\ pc' = [pc EXCEPT ![h] = "log_start"]
            /\ UNCHANGED <<current_game, locals, result>>
    /\ UNCHANGED <<settings, in_game_scene, current_scene, now, appends,
                   resolver_calls, nevents, branch>>

(* ---------------------------- log_transition --------------------------- *)
\* lines 73-78 writing to a fixed file instead of the configured one
LogTransition_FixedPath(h) ==
    /\ pc[h] \in {"log_start", "log_end"}
    /\ LET end == (pc[h] = "log_end")
           timestamp == now
       IN  /\ appends' = Append(appends,
                  [path |-> "a.log",
                   line |-> FormatLine(timestamp, EventName(end), current_game)])
           /\ pc' = [pc EXCEPT ![h] = IF end THEN "set_false" ELSE "set_true"]
    /\ now' = now + 1
    /\ UNCHANGED <<settings, in_game_scene, current_game, current_scene,
                   resolver_calls, console, nevents, branch, locals, result>>

\* lines 73-78 with the open and the write succeeding
LogTransition(h) ==
    /\ pc[h] \in {"log_start", "log_end"}
    /\ Openable(settings.logfile)
    /\ LET end == (pc[h] = "log_end")
           timestamp == now
       IN  /\ appends' = Append(appends,
                  [path |-> settings.logfile,
                   line |-> FormatLine(timestamp, EventName(end), current_game)])
           /\ pc' = [pc EXCEPT ![h] = IF end THEN "set_false" ELSE "set_true"]
    /\ now' = now + 1
    /\ UNCHANGED <<settings, in_game_scene, current_game, current_scene,
                   resolver_calls, console, nevents, branch, locals, result>>

\* the line reaches the file and the with block raises on leaving it
LogTransitionFails_AfterWrite(h) ==
    /\ pc[h] \in {"log_start", "log_end"}
    /\ Openable(settings.logfile)
    /\ appends' = Append(appends,
           [path |-> settings.logfile,
            line |-> FormatLine(now, EventName(pc[h] = "log_end"),
                                current_game)])
    /\ Raise(h)
    /\ now' = now + 1
    /\ UNCHANGED <<settings, in_game_scene, current_game, current_scene,
                   resolver_calls, console, nevents, branch>>

\* the OSError swallowed: the handler goes on to line 121 / 125
LogTransitionFails_Swallowed(h) ==
    /\ pc[h] \in {"log_start", "log_end"}
    /\ pc' = [pc EXCEPT ![h] = IF pc[h] = "log_end" THEN "set_false"
                                                    ELSE "set_true"]
    /\ now' = now + 1
    /\ UNCHANGED <<settings, in_game_scene, current_game, current_scene,
                   appends, resolver_calls, console, nevents, branch, locals,
                   result>>

\* lines 73-78 with open() or the write raising OSError
LogTransitionFails(h) ==
    /\ pc[h] \in {"log_start", "log_end"}
    /\ Raise(h)
    /\ now' = now + 1
    /\ UNCHANGED <<settings, in_game_scene, current_game, current_scene,
                   appends, resolver_calls, console, nevents, branch>>

\* lines 121 and 125 missing: the flag is never updated
SetInGameScene_KeepsFlag(h) ==
    /\ pc[h] \in {"set_true", "set_false"}
    /\ Return(h)
    /\ UNCHANGED <<settings, in_game_scene, current_game, current_scene, now,
                   appends, resolver_calls, console, nevents, branch>>

\* line 125 assigning True like line 121
SetInGameScene_AlwaysTrue(h) ==
    /\ pc[h] \in {"set_true", "set_false"}
    /\ in_game_scene' = TRUE
    /\ Return(h)
    /\ UNCHANGED <<settings, current_game, current_scene, now, appends,
                   resolver_calls, console, nevents, branch>>

\* lines 121 and 125
SetInGameScene(h) ==
    /\ pc[h] \in {"set_true", "set_false"}
    /\ in_game_scene' = (pc[h] = "set_true")
    /\ Return(h)
    /\ UNCHANGED <<settings, current_game, current_scene, now, appends,
                   resolver_calls, console, nevents, branch>>

(* ------------------------------ behaviour ------------------------------ *)
Next ==
    \/ ConfigChange
    \/ ClockSetBack
    \/ \E h \in Handlers : OtherEvent(h)
    \/ \E h \in Handlers, s \in SceneNames : SceneChanged(h, s)
    \/ \E h \in Handlers : SetGameRequest(h)
    \/ \E h \in Handlers, r \in Responses : SetGameResponse(h, r)
    \/ \E h \in Handlers : SetGameNetworkError(h)
    \/ \E h \in Handlers : SetGameStore(h)
    \/ \E h \in Handlers : LogTransition(h)
    \/ \E h \in Handlers : LogTransitionFails(h)
    \/ \E h \in Handlers : SetInGameScene(h)

Spec == Init /\ [][Next]_vars

\* a statement of handle_event, set_game or log_transition that runs on the
\* script's own thread with nothing to wait for: the interpreter executes it
HandlerStep ==
    \E h \in Handlers :
        \/ SetGameRequest(h)
        \/ SetGameStore(h)
        \/ LogTransition(h)
        \/ LogTransitionFails(h)
        \/ SetInGameScene(h)

\* the interpreter keeps executing the handler's statements; line 85 passes
\* no timeout to requests.get, so nothing obliges the endpoint's answer or a
\* network error to ever arrive
SpecFair == Spec /\ WF_vars(HandlerStep)

\* the program under a host that may deliver a scene change re-entrantly
NextReentrant ==
    \/ Next
    \/ \E h \in Handlers, s \in SceneNames : SceneChangedReentrant(h, s)

SpecReentrant == Init /\ [][NextReentrant]_vars

TypeOK ==
    /\ settings \in Settings
    /\ in_game_scene \in BOOLEAN
    /\ current_game \in {None} \cup {Some(g) : g \in GameIds}
    /\ current_scene \in SceneNames
    /\ now \in Nat
    /\ resolver_calls \in 0..MaxEvents
    /\ nevents \in 0..MaxEvents
    /\ Len(appends) <= MaxEvents
    /\ branch \in {"none", "other", "start", "end", "noop"}
    /\ \A h \in Handlers :
          /\ pc[h] \in {"idle", "set_game", "requests_get", "check_status",
                        "log_start", "set_true", "log_end", "set_false"}
          /\ result[h] \in {"none", "returned", "raised"}
          /\ resp[h] \in Responses \cup {NoResponse}
(* ======================================================================= *)
(*                              properties                                 *)
(* ======================================================================= *)
\* scene s is one of the configured game scenes
IsGameScene(s) == s \in {settings.gamescene[i] : i \in DOMAIN settings.gamescene}

\* this step delivers a scene-changed event to handle_event
SceneChangeHandled == nevents' = nevents + 1 /\ branch' # "other"

\* invocation h executes a statement in this step
Moves(h) == pc'[h] # pc[h]

\* this step appends exactly one line, tagged event, and nothing else
AppendsOne(event) ==
    /\ Len(appends') = Len(appends) + 1
    /\ SubSeq(appends', 1, Len(appends)) = appends
    /\ appends'[Len(appends')].line.event = event

LastAppend == appends[Len(appends)]

(* ------------------------------- C1 ------------------------------------ *)
\* C1: every scene-change event handled while in_game_scene is false and the
\* new scene is in the game-scene list makes handle_event call the resolver
\* exactly once, then append exactly one START line, then set in_game_scene
\* to true, in that order: the invocation walks the whole chain
\* set_game -> log_transition -> flag and never leaves it early.
C1_StartTransition ==
    [][ /\ (SceneChangeHandled /\ ~in_game_scene
               /\ IsGameScene(current_scene'))
           => /\ \E h \in Handlers : pc[h] = "idle" /\ pc'[h] = "set_game"
              /\ UNCHANGED <<resolver_calls, appends, in_game_scene>>
        /\ \A h \in Handlers :
           /\ (pc[h] = "set_game" /\ Moves(h))
              => /\ pc'[h] = "requests_get"
                 /\ resolver_calls' = resolver_calls + 1
                 /\ UNCHANGED <<appends, in_game_scene>>
           /\ (pc[h] = "requests_get" /\ Moves(h))
              => /\ pc'[h] = "check_status"
                 /\ UNCHANGED <<resolver_calls, appends, in_game_scene>>
           /\ (pc[h] = "check_status" /\ Moves(h))
              => /\ pc'[h] = "log_start"
                 /\ UNCHANGED <<resolver_calls, appends, in_game_scene>>
           /\ (pc[h] = "log_start" /\ Moves(h))
              => /\ pc'[h] = "set_true"
                 /\ AppendsOne("START")
                 /\ UNCHANGED <<resolver_calls, in_game_scene>>
           /\ (pc[h] = "set_true" /\ Moves(h))
              => /\ pc'[h] = "idle"
                 /\ in_game_scene' = TRUE
                 /\ UNCHANGED <<resolver_calls, appends>>
      ]_vars

(* ------------------------------- C2 ------------------------------------ *)
\* the steps of an end transition; mayFail says whether the append of the
\* END line is allowed to raise and abort the invocation
EndTransitionSteps(mayFail) ==
    /\ (SceneChangeHandled /\ in_game_scene
           /\ ~IsGameScene(current_scene'))
       => /\ \E h \in Handlers : pc[h] = "idle" /\ pc'[h] = "log_end"
          /\ UNCHANGED <<resolver_calls, appends, in_game_scene, current_game>>
    /\ \A h \in Handlers :
       /\ (pc[h] = "log_end" /\ Moves(h))
          => \/ /\ pc'[h] = "set_false"
                /\ AppendsOne("END")
                /\ appends'[Len(appends')].line.game = Str(current_game)
                /\ UNCHANGED <<resolver_calls, in_game_scene, current_game>>
             \/ /\ mayFail
                /\ pc'[h] = "idle"
                /\ result'[h] = "raised"
                /\ UNCHANGED <<resolver_calls, appends, in_game_scene,
                               current_game>>
       /\ (pc[h] = "set_false" /\ Moves(h))
          => /\ pc'[h] = "idle"
             /\ in_game_scene' = FALSE
             /\ UNCHANGED <<resolver_calls, appends, current_game>>

\* C2 as stated: every scene-change event handled while in_game_scene is true
\* and the new scene is not in the list appends exactly one END line carrying
\* the stored current_game, calls no resolver, then sets in_game_scene false.
C2_EndTransitionAlways == [][EndTransitionSteps(FALSE)]_vars

\* C2 amended: the same, except that when the append raises (the file cannot
\* be opened or written) nothing is appended, the invocation ends with the
\* exception and in_game_scene stays true.
C2_EndTransition == [][EndTransitionSteps(TRUE)]_vars

\* an end transition has run to completion and left its END line behind
C2_Witness ==
    /\ branch = "end"
    /\ \A h \in Handlers : pc[h] = "idle"
    /\ \E h \in Handlers : result[h] = "returned"
    /\ ~in_game_scene
    /\ appends # <<>>
    /\ LastAppend.line.event = "END"
    /\ LastAppend.line.game = "g1"

(* ------------------------------- C3 ------------------------------------ *)
\* C3: no failure of the game-id lookup (non-success status, network error,
\* malformed body, missing field) keeps the start from being recorded: once
\* the request is out, the invocation always goes on to log_transition().
C3_LookupFailureNeverBlocksStart ==
    [][ \A h \in Handlers :
          (pc[h] \in {"requests_get", "check_status"} /\ Moves(h))
             => pc'[h] \in {"check_status", "log_start"} ]_vars
(* ------------------------------- C4 ------------------------------------ *)
\* the lookup succeeded: status 200 and a body holding the id
Resolved(r) == r.status = 200 /\ r.body = "json"

\* C4: a failed resolution leaves current_game exactly as it was, an end
\* transition never clears it, it changes only to the id of a successful
\* response, and every appended line (START or END) carries the value stored
\* at that moment: while the resolver keeps failing, every line repeats the
\* last successfully resolved id, or the absent value if there was none.
C4_StaleGameKept ==
    [][ /\ \A h \in Handlers :
           /\ (pc[h] \in {"set_game", "requests_get"} /\ Moves(h))
              => current_game' = current_game
           /\ (pc[h] = "check_status" /\ Moves(h) /\ ~Resolved(resp[h]))
              => current_game' = current_game
           /\ (pc[h] \in {"log_end", "set_false"} /\ Moves(h))
              => current_game' = current_game
        /\ current_game' # current_game
           => \E h \in Handlers :
                 /\ pc[h] = "check_status"
                 /\ Resolved(resp[h])
                 /\ current_game' = Some(resp[h].id)
        /\ appends' # appends
           => appends'[Len(appends')].line.game = Str(current_game)
      ]_vars

\* g1 was resolved once; the next start met a refusing endpoint and its START
\* line repeats g1
C4_Witness ==
    /\ Len(appends) = 3
    /\ appends[1].line = [timestamp |-> 0, event |-> "START", game |-> "g1"]
    /\ appends[2].line.event = "END" /\ appends[2].line.game = "g1"
    /\ appends[3].line.event = "START" /\ appends[3].line.game = "g1"
    /\ resolver_calls = 2
    /\ console = "Failed to get data from API"
    /\ in_game_scene

(* ------------------------------- C5 ------------------------------------ *)
\* C5: a scene-change event handled when in_game_scene already agrees with
\* the membership of the new scene in the game-scene list calls no resolver,
\* appends no line, leaves in_game_scene and current_game unchanged and ends
\* the invocation at once.
C5_NoOp ==
    [][ (SceneChangeHandled
            /\ (in_game_scene <=> IsGameScene(current_scene')))
        => /\ UNCHANGED <<resolver_calls, appends, in_game_scene, current_game>>
           /\ \A h \in Handlers : pc'[h] = "idle" /\ result'[h] # "raised"
      ]_vars

\* in a game (one START written), a change to "Lobby", also a game scene,
\* was handled and wrote nothing
C5_Witness ==
    /\ branch = "noop"
    /\ in_game_scene
    /\ current_scene = "Lobby"
    /\ IsGameScene("Lobby")
    /\ nevents = 2
    /\ resolver_calls = 1
    /\ Len(appends) = 1
    /\ \A h \in Handlers : pc[h] = "idle"

(* ------------------------------- C6 ------------------------------------ *)
\* the last event was a scene change to current_scene, which was in the
\* game-scene list when that event was handled
LastSceneWasGameScene ==
    branch = "start" \/ (branch = "noop" /\ in_game_scene)

\* C6: handling a second consecutive scene-change event with the same game-
\* scene name changes nothing and has no side effect, whatever the state.
C6_Idempotent ==
    [][ (SceneChangeHandled
            /\ current_scene' = current_scene
            /\ LastSceneWasGameScene
            /\ IsGameScene(current_scene'))
        => /\ UNCHANGED <<resolver_calls, appends, in_game_scene, current_game,
                          console>>
           /\ \A h \in Handlers : pc'[h] = "idle"
      ]_vars

(* ------------------------------- C7 ------------------------------------ *)
NoStartEver ==
    /\ resolver_calls = 0
    /\ ~in_game_scene
    /\ \A i \in 1..Len(appends) : appends[i].line.event # "START"
    /\ \A h \in Handlers : pc[h] \notin {"set_game", "requests_get",
                                         "check_status", "log_start", "set_true"}

\* C7: if the configured game-scene list is empty for the whole run, no
\* sequence of events ever appends a START line, calls the resolver or sets
\* in_game_scene to true.
C7_EmptyListNeverStarts == [](settings.gamescene = <<>>) => []NoStartEver

\* scene changes were handled with the list empty, and nothing started
C7_Witness ==
    /\ settings.gamescene = <<>>
    /\ branch = "noop"
    /\ nevents >= 2
    /\ NoStartEver
    /\ appends = <<>>
(* ------------------------------- C8 ------------------------------------ *)
\* one append per transition: a line is appended only by log_transition(),
\* one at a time, tagged by the transition under way and stamped with the
\* clock reading; in_game_scene changes only right after such an append, and
\* every append is followed by that change. With increasing, each new line
\* is also stamped later than the line before it.
OneAppendPerTransition(increasing) ==
    /\ appends' # appends
       => \E h \in Handlers :
             /\ pc[h] \in {"log_start", "log_end"}
             /\ AppendsOne(IF pc[h] = "log_start" THEN "START" ELSE "END")
             /\ pc'[h] = (IF pc[h] = "log_start" THEN "set_true" ELSE "set_false")
             /\ appends'[Len(appends')].line.timestamp = now
             /\ UNCHANGED in_game_scene
             /\ (increasing /\ appends # <<>>)
                => appends'[Len(appends')].line.timestamp
                      > LastAppend.line.timestamp
    /\ in_game_scene' # in_game_scene
       => /\ UNCHANGED appends
          /\ appends # <<>>
          /\ LastAppend.line.event = (IF in_game_scene' THEN "START" ELSE "END")
          /\ \E h \in Handlers : pc[h] \in {"set_true", "set_false"} /\ Moves(h)
    /\ \A h \in Handlers :
          (pc[h] \in {"set_true", "set_false"} /\ Moves(h))
             => in_game_scene' # in_game_scene

C9_SettingsReadFresh ==
    [][ /\ SceneChangeHandled
           => branch' = (IF ~in_game_scene /\ IsGameScene(current_scene')
                            THEN "start"
                         ELSE IF in_game_scene /\ ~IsGameScene(current_scene')
                            THEN "end"
                         ELSE "noop")
        /\ \A h \in Handlers :
              (pc[h] = "set_game" /\ pc'[h] = "requests_get")
                 => req_url'[h] = settings.apiurl
        /\ appends' # appends
           => appends'[Len(appends')].path = settings.logfile
      ]_vars

\* the log file setting was edited between two transitions and the second
\* line went to the new file
C9_Witness ==
    /\ Len(appends) = 2
    /\ appends[1].path = "a.log"
    /\ appends[2].path = "b.log"
    /\ appends[1].line.event = "START"
    /\ appends[2].line.event = "END"
    /\ nevents = 2

(* ------------------------------- C10 ----------------------------------- *)
\* C10: a write failure drops the event: the invocation ends at once with
\* nothing appended, nothing left pending and the detector state as it was;
\* and whatever failed before, the next scene-change event is handled by the
\* two-state machine again (start, end or no-op by flag and membership).
C10_WriteFailureDropsEvent ==
    [][ /\ \A h \in Handlers :
              (pc[h] \in {"log_start", "log_end"} /\ Moves(h)
                  /\ appends' = appends)
                 => /\ pc'[h] = "idle"
                    /\ UNCHANGED <<in_game_scene, current_game, resolver_calls>>
        /\ (SceneChangeHandled /\ \E h \in Handlers : result[h] = "raised")
           => \E h \in Handlers :
                 /\ pc[h] = "idle"
                 /\ pc'[h] = (IF ~in_game_scene /\ IsGameScene(current_scene')
                                 THEN "set_game"
                              ELSE IF in_game_scene /\ ~IsGameScene(current_scene')
                                 THEN "log_end"
                              ELSE "idle")
      ]_vars

\* the first start lost its line to a write failure (the clock moved on, no
\* line); the next event started again and its START line was written
C10_Witness ==
    /\ nevents = 2
    /\ resolver_calls = 2
    /\ Len(appends) = 1
    /\ appends[1].line = [timestamp |-> 1, event |-> "START", game |-> "g1"]
    /\ in_game_scene
    /\ \A h \in Handlers : pc[h] = "idle"
(* ------------------------------- C11 ----------------------------------- *)
\* C11: absent configuration never raises: with an empty endpoint the
\* resolver call, and with an empty log file path the write, leave the
\* handler running instead of ending it with an exception (an invocation at
\* one of these statements never returns to the host from there normally, so
\* ending there means an exception escaped).
C11_AbsentConfigNeverRaises ==
    [][ \A h \in Handlers :
          /\ (pc[h] = "set_game" /\ settings.apiurl = "" /\ Moves(h))
             => pc'[h] # "idle"
          /\ (pc[h] \in {"log_start", "log_end"} /\ settings.logfile = ""
                 /\ Moves(h))
             => pc'[h] # "idle"
      ]_vars
(* ------------------------------- C14 ----------------------------------- *)
\* the kind of the i-th line appended by this session
Kind(i) == appends[i].line.event

LastIsStart == appends # <<>> /\ Kind(Len(appends)) = "START"

\* between the append (line 120 / 124) and the assignment that follows it
\* (line 121 / 125) the line is in the file and the flag not yet updated
BetweenAppendAndFlag == \E h \in Handlers : pc[h] \in {"set_true", "set_false"}

\* C14: with serialized delivery and any mix of resolver and write failures,
\* in_game_scene is true exactly when the last line appended by this session
\* is START (false when nothing or an END was appended last), in every state
\* but the one inside the handler between the append and the assignment of
\* the flag, where the flag is still the old one; and the appended lines
\* alternate START, END, START, ... beginning with START.
C14_FlagMatchesLastLine ==
    /\ in_game_scene = (IF BetweenAppendAndFlag THEN ~LastIsStart
                                                ELSE LastIsStart)
    /\ \A i \in 1..Len(appends) :
          Kind(i) = (IF i % 2 = 1 THEN "START" ELSE "END")

\* a start was logged, then the write of the END failed: the flag is still
\* true and the last line is still the START
C14_Witness ==
    /\ Serialized
    /\ \E h \in Handlers : result[h] = "raised"
    /\ branch = "end"
    /\ in_game_scene
    /\ Len(appends) = 1

(* ------------------------------- C15 ----------------------------------- *)
\* C15: with serialized delivery every END line carries the same game id as
\* the START line appended immediately before it.
C15_EndCarriesStartGame ==
    \A i \in 1..Len(appends) :
        Kind(i) = "END" =>
            /\ i > 1
            /\ Kind(i - 1) = "START"
            /\ appends[i].line.game = appends[i - 1].line.game

C15_Witness ==
    /\ Len(appends) = 2
    /\ Kind(2) = "END"
    /\ appends[2].line.game = "g2"

(* ------------------------------- C16 ----------------------------------- *)
\* the step on which the handling of a scene-change event returns normally:
\* line 121 / 125 done, or neither arm of the if taken
SceneChangeCompletes ==
    /\ branch' \in {"start", "end", "noop"}
    /\ \/ \E h \in Handlers : /\ pc[h] \in {"set_true", "set_false"}
                              /\ pc'[h] = "idle"
                              /\ result'[h] = "returned"
       \/ nevents' = nevents + 1 /\ branch' = "noop"

\* C16: when the handling of a scene-change event completes without an
\* error, in_game_scene equals the membership of the newly active scene in
\* the game-scene list read during that event.
C16_FlagTracksMembership ==
    [][SceneChangeCompletes => in_game_scene' = IsGameScene(current_scene')]_vars

C16_Witness ==
    /\ Serialized
    /\ branch = "end"
    /\ \E h \in Handlers : result[h] = "returned"
    /\ ~in_game_scene
    /\ ~IsGameScene(current_scene)
    /\ Len(appends) = 2

(* ------------------------------- C17 ----------------------------------- *)
\* C17: a frontend event other than scene-changed leaves in_game_scene,
\* current_game and the log unchanged and makes no resolver call: its
\* invocation returns at once, whatever the scene and the configuration.
C17_OtherEventFrame ==
    [][(nevents' = nevents + 1 /\ branch' = "other")
          => /\ UNCHANGED <<in_game_scene, current_game, appends,
                            resolver_calls>>
             /\ \A h \in Handlers : pc'[h] = "idle"]_vars

\* an other event delivered while a game is being played
C17_Witness ==
    /\ branch = "other"
    /\ in_game_scene
    /\ IsGameScene(current_scene)
    /\ resolver_calls = 1
    /\ Len(appends) = 1
(* ------------------------------- C13 ----------------------------------- *)
\* C13: every handler invocation terminates: an invocation that has started
\* a transition eventually returns control to the host; in particular a
\* resolution request always runs to completion or failure and no invocation
\* stays inside the resolver call forever.
C13_EveryInvocationTerminates ==
    \A h \in Handlers : (pc[h] # "idle") ~> (pc[h] = "idle")
(* ------------------------------- C12 ----------------------------------- *)
\* the second frame is used only by a notification delivered while an
\* earlier invocation is still running
Reentered ==
    \E h \in Handlers : h > 1 /\ (pc[h] # "idle" \/ result[h] # "none")

\* two START lines in a row, no END between them
DoubleStart ==
    \E i \in 1..(Len(appends) - 1) : Kind(i) = "START" /\ Kind(i + 1) = "START"

\* a notification for a game scene handled while an earlier invocation is
\* inside the resolver call and the flag is still false
SecondGameSceneDuringResolve ==
    /\ nevents' = nevents + 1
    /\ \E g \in Handlers : pc[g] = "requests_get"
    /\ ~in_game_scene
    /\ IsGameScene(current_scene')

\* C12: the handler has no re-entrancy guard: a second notification for a
\* game scene handled while a first start transition is inside the resolver
\* call, before the flag is set, fires the start transition again (a second
\* resolver call, and two START lines in a row once both are written); two
\* START lines in a row come with two resolver calls and only from such a
\* re-entrant delivery, never when the host serializes its notifications.
C12_ReentrancyGap ==
    /\ [][SecondGameSceneDuringResolve
            => \E h \in Handlers : /\ pc[h] = "idle"
                                   /\ pc'[h] = "set_game"
                                   /\ branch' = "start"]_vars
    /\ [](DoubleStart => Reentered /\ resolver_calls >= 2)
    /\ [](~Reentered => Cardinality({h \in Handlers : pc[h] # "idle"}) <= 1)

\* both invocations resolved and wrote: two resolver calls, START START
C12_Witness ==
    /\ nevents = 2
    /\ resolver_calls = 2
    /\ Len(appends) = 2
    /\ Kind(1) = "START"
    /\ Kind(2) = "START"
    /\ in_game_scene
====
